---- MODULE Spec2Model ----
(***************************************************************************)
(* Model of the fs_read library (contextinator core): the line-range       *)
(* resolver and line reader (line.rs), the search engine and its context   *)
(* windows (search.rs), the directory lister (directory.rs) and the single *)
(* and batch entry points (lib.rs).                                        *)
(*                                                                         *)
(* The library keeps no state between calls, so the state of the model is  *)
(* one call: which entry point was invoked, its arguments (including what  *)
(* the filesystem holds at the path), and what it returned.                *)
(*                                                                         *)
(* TLC's integers are 32 bits wide, so the integer types are modelled      *)
(* IntBits wide, keeping their relation: i32 is IntBits bits signed, u32   *)
(* IntBits bits unsigned, usize 2*IntBits bits unsigned (64-bit target).   *)
(***************************************************************************)
EXTENDS Integers, Sequences, FiniteSets, TLC

VARIABLES call, args, ret

vars == <<call, args, ret>>

(* ----------------------------- bounds ---------------------------------- *)

IntBits == 5
MaxTotal == 17
MaxLines == 4
MaxDirEntries == 3
MaxDirLines == 2
MaxEntries == 3
MaxBatch == 3

(* ------------------------- integer types ------------------------------- *)

I32Min == -(2^(IntBits - 1))
I32Max == 2^(IntBits - 1) - 1
U32Max == 2^IntBits - 1
UsizeMax == 2^(2 * IntBits) - 1

I32 == I32Min..I32Max

\* `x as usize`: the value modulo 2^width (sign extension of a negative i32)
AsUsize(x) == x % (UsizeMax + 1)

\* i32::unsigned_abs
unsigned_abs(n) == IF n < 0 THEN -n ELSE n

\* usize::saturating_sub
saturating_sub(a, b) == IF b > a THEN 0 ELSE a - b

\* Ord::min
Min(a, b) == IF a <= b THEN a ELSE b

(* --------------------------- Option, Result ---------------------------- *)

None == [some |-> FALSE]
Some(x) == [some |-> TRUE, v |-> x]
OptionI32 == {None} \cup {Some(n) : n \in I32}

\* Option::unwrap_or
unwrap_or(o, d) == IF o.some THEN o.v ELSE d

Ok(x) == [ok |-> TRUE, panic |-> FALSE, val |-> x]
Err(e) == [ok |-> FALSE, panic |-> FALSE, err |-> e]
\* a panic (slice index out of range) unwinds out of the call
Panic == [ok |-> FALSE, panic |-> TRUE, err |-> [kind |-> "Panic"]]

(* FsReadError *)
PathNotFound(p) == [kind |-> "PathNotFound", path |-> p]
InvalidPath(p) == [kind |-> "InvalidPath", path |-> p]
IoError == [kind |-> "IoError"]
InvalidLineRange(s, e) == [kind |-> "InvalidLineRange", start |-> s, end |-> e]
InvalidPattern(p) == [kind |-> "InvalidPattern", pattern |-> p]

(* ----------------------------- line.rs --------------------------------- *)

\* the off-by-one a resolver without the `n == 0` case would have
resolve_begin_nozero(start, total_lines) ==
    IF ~start.some THEN 0
    ELSE IF start.v >= 0
         THEN Min(AsUsize(start.v - 1), total_lines)
         ELSE saturating_sub(total_lines, AsUsize(unsigned_abs(start.v)))

\* a negative start resolved with the end bound's "+ 1"
resolve_begin_plusone(start, total_lines) ==
    IF ~start.some THEN 0
    ELSE IF start.v >= 0
         THEN Min(IF start.v = 0 THEN 0 ELSE AsUsize(start.v - 1), total_lines)
         ELSE LET abs == AsUsize(unsigned_abs(start.v))
              IN  IF abs > total_lines THEN 0 ELSE AsUsize(total_lines - abs + 1)

\* start_idx of resolve_line_range
resolve_begin(start, total_lines) ==
    IF ~start.some THEN 0
    ELSE IF start.v >= 0
         THEN Min(IF start.v = 0 THEN 0 ELSE AsUsize(start.v - 1), total_lines)
         ELSE saturating_sub(total_lines, AsUsize(unsigned_abs(start.v)))

\* an end bound that is not clamped to the file
resolve_end_noclamp(end, total_lines) ==
    IF ~end.some THEN total_lines
    ELSE IF end.v >= 0
         THEN AsUsize(end.v)
         ELSE LET abs == AsUsize(unsigned_abs(end.v))
              IN  IF abs > total_lines THEN 0 ELSE AsUsize(total_lines - abs + 1)

\* end_idx of resolve_line_range
resolve_end(end, total_lines) ==
    IF ~end.some THEN total_lines
    ELSE IF end.v >= 0
         THEN Min(AsUsize(end.v), total_lines)
         ELSE LET abs == AsUsize(unsigned_abs(end.v))
              IN  IF abs > total_lines THEN 0 ELSE AsUsize(total_lines - abs + 1)

\* an error that carries the resolved indices instead of the caller's values
range_error_resolved(start, end, total_lines) ==
    InvalidLineRange(resolve_begin(start, total_lines), resolve_end(end, total_lines))

\* the error resolve_line_range builds
range_error(start, end, total_lines) ==
    InvalidLineRange(unwrap_or(start, 0), unwrap_or(end, 0))

resolve_line_range(start, end, total_lines) ==
    LET start_idx == resolve_begin(start, total_lines)
        end_idx == resolve_end(end, total_lines)
    IN  IF start_idx > end_idx
        THEN Err(range_error(start, end, total_lines))
        ELSE Ok(<<start_idx, end_idx>>)

\* lines[a..b] is in bounds (otherwise the slice expression panics)
SliceOk(lines, a, b) == a <= b /\ b <= Len(lines)

\* lines[a..b].to_vec(), for an in-bounds a..b
Slice(lines, a, b) == SubSeq(lines, a + 1, b)

\* A string is modelled by the sequence of its "\n"-separated segments, so
\* join("\n") of no lines is the empty string, one empty segment.
Join(lines) == IF lines = <<>> THEN <<"">> ELSE lines

(* What the filesystem holds at a path. *)
Missing(p) == [path |-> p, kind |-> "missing"]
Special(p) == [path |-> p, kind |-> "special"]
File(p, readable, lines) ==
    [path |-> p, kind |-> "file", readable |-> readable, lines |-> lines]
Dir(p, name, entries) ==
    [path |-> p, kind |-> "dir", name |-> name, entries |-> entries]

exists(node) == node.kind # "missing"
is_file(node) == node.kind = "file"
is_dir(node) == node.kind = "dir"

read_lines(node, start_line, end_line) ==
    IF ~exists(node) THEN Err(PathNotFound(node.path))
    ELSE IF ~is_file(node) THEN Err(InvalidPath(node.path))
    ELSE IF ~node.readable THEN Err(IoError)
    ELSE LET lines == node.lines
             total_lines == Len(lines)
             r == resolve_line_range(start_line, end_line, total_lines)
         IN  IF ~r.ok THEN r
             ELSE IF ~SliceOk(lines, r.val[1], r.val[2]) THEN Panic
             ELSE LET selected_lines == Slice(lines, r.val[1], r.val[2])
                  IN  Ok([type |-> "line",
                          content |-> Join(selected_lines),
                          total_lines |-> total_lines,
                          lines_returned |-> Len(selected_lines)])

(* ---------------------------- search.rs ------------------------------- *)

(* The regex crate is an external collaborator: a pattern either fails to  *)
(* compile or decides, for each line, whether it matches.                  *)
TodoLine == "TODO: fix this"
Patterns == {"TODO", "("}

\* Regex::new(pattern).map_err(InvalidPattern)
regex_new(pattern) ==
    IF pattern = "(" THEN Err(InvalidPattern(pattern)) ELSE Ok(pattern)

\* regex.is_match(line)
is_match(regex, line) == regex = "TODO" /\ line = TodoLine

\* usize addition (wrapping, as in a release build)
usize_add(a, b) == (a + b) % (UsizeMax + 1)

get_context_before(lines, index, count) ==
    LET start == saturating_sub(index, AsUsize(count))
    IN  IF SliceOk(lines, start, index) THEN Ok(Slice(lines, start, index)) ELSE Panic

\* a window that is not clamped to the end of the file
get_context_after_noclamp(lines, index, count) ==
    LET end == usize_add(usize_add(index, 1), AsUsize(count))
    IN  IF SliceOk(lines, index + 1, end) THEN Ok(Slice(lines, index + 1, end)) ELSE Panic

get_context_after(lines, index, count) ==
    LET end == Min(usize_add(usize_add(index, 1), AsUsize(count)), Len(lines))
    IN  IF SliceOk(lines, index + 1, end) THEN Ok(Slice(lines, index + 1, end)) ELSE Panic

SearchMatch(file_path, line_number, line_content, context_before, context_after) ==
    [file_path |-> file_path, line_number |-> line_number,
     line_content |-> line_content,
     context_before |-> context_before, context_after |-> context_after]

\* the loop of search_file from 0-based line_num on, matches so far in acc
RECURSIVE search_file_loop(_, _, _, _, _, _)
search_file_loop(file_path, lines, line_num, regex, context_lines, acc) ==
    IF line_num >= Len(lines) THEN Ok(acc)
    ELSE LET line == lines[line_num + 1]
         IN  IF ~is_match(regex, line)
             THEN search_file_loop(file_path, lines, line_num + 1, regex,
                                   context_lines, acc)
             ELSE LET context_before == get_context_before(lines, line_num, context_lines)
                      context_after == get_context_after(lines, line_num, context_lines)
                  IN  IF context_before.panic \/ context_after.panic THEN Panic
                      ELSE search_file_loop(
                               file_path, lines, line_num + 1, regex, context_lines,
                               Append(acc, SearchMatch(file_path, line_num + 1, line,
                                                       context_before.val,
                                                       context_after.val)))

\* file: [path, readable, lines]; opening or reading an unreadable file fails
search_file(file, regex, context_lines) ==
    IF ~file.readable THEN Err(IoError)
    ELSE search_file_loop(file.path, file.lines, 0, regex, context_lines, <<>>)

(* WalkDir yields the root (depth 0) and then, in pre-order, an item per   *)
(* entry beneath it: a file, a directory, or an error (no entry).          *)
WalkFile(depth, name, readable, lines) ==
    [depth |-> depth, name |-> name, kind |-> "file",
     readable |-> readable, lines |-> lines]
WalkDirectory(depth, name) ==
    [depth |-> depth, name |-> name, kind |-> "dir", readable |-> TRUE, lines |-> <<>>]
WalkError(depth) ==
    [depth |-> depth, name |-> <<>>, kind |-> "err", readable |-> FALSE, lines |-> <<>>]

\* index of the entry's parent in the pre-order sequence (0: the root)
RECURSIVE ParentIdx(_, _, _)
ParentIdx(entries, i, j) ==
    IF j = 0 THEN 0
    ELSE IF entries[j].depth = entries[i].depth - 1 THEN j
    ELSE ParentIdx(entries, i, j - 1)

\* entry.path(): the root path followed by the names down to the entry
RECURSIVE EntryPath(_, _, _)
EntryPath(root, entries, i) ==
    IF i = 0 THEN <<root>>
    ELSE Append(EntryPath(root, entries, ParentIdx(entries, i, i - 1)), entries[i].name)

\* WalkDir::new(path).into_iter(): the root item, then the entries
WalkItems(node) ==
    <<[depth |-> 0, name |-> (IF is_dir(node) THEN node.name ELSE <<>>),
       kind |-> (IF is_dir(node) THEN "dir" ELSE "special"),
       readable |-> TRUE, lines |-> <<>>]>>
    \o (IF is_dir(node) THEN node.entries ELSE <<>>)

\* a directory search that propagates a file's error instead of skipping it
RECURSIVE search_directory_loop_abort(_, _, _, _, _)
search_directory_loop_abort(node, k, regex, context_lines, all_matches) ==
    LET items == WalkItems(node)
    IN  IF k > Len(items) THEN Ok(all_matches)
        ELSE IF items[k].kind # "file"
             THEN search_directory_loop_abort(node, k + 1, regex, context_lines,
                                              all_matches)
             ELSE LET r == search_file(
                               [path |-> EntryPath(node.path, node.entries, k - 1),
                                readable |-> items[k].readable,
                                lines |-> items[k].lines],
                               regex, context_lines)
                  IN  IF ~r.ok THEN r
                      ELSE search_directory_loop_abort(node, k + 1, regex, context_lines,
                                                       all_matches \o r.val)

\* the loop of search_directory from the k-th walk item on
RECURSIVE search_directory_loop(_, _, _, _, _)
search_directory_loop(node, k, regex, context_lines, all_matches) ==
    LET items == WalkItems(node)
    IN  IF k > Len(items) THEN Ok(all_matches)
        \* filter_map(|e| e.ok()).filter(|e| e.file_type().is_file())
        ELSE IF items[k].kind # "file"
             THEN search_directory_loop(node, k + 1, regex, context_lines, all_matches)
             ELSE LET r == search_file(
                               [path |-> EntryPath(node.path, node.entries, k - 1),
                                readable |-> items[k].readable,
                                lines |-> items[k].lines],
                               regex, context_lines)
                  IN  IF r.panic THEN Panic
                      ELSE IF r.ok
                           THEN search_directory_loop(node, k + 1, regex, context_lines,
                                                      all_matches \o r.val)
                           ELSE search_directory_loop(node, k + 1, regex, context_lines,
                                                      all_matches)

search_directory(node, regex, context_lines) ==
    search_directory_loop(node, 1, regex, context_lines, <<>>)

\* a search that compiles the pattern before it looks at the path
search_pattern_compile_first(node, pattern, context_lines) ==
    LET regex == regex_new(pattern)
    IN  IF ~regex.ok THEN regex
        ELSE IF ~exists(node) THEN Err(PathNotFound(node.path))
        ELSE LET matches ==
                     IF is_file(node)
                     THEN search_file([path |-> <<node.path>>,
                                       readable |-> node.readable,
                                       lines |-> node.lines],
                                      regex.val, context_lines)
                     ELSE search_directory(node, regex.val, context_lines)
             IN  IF ~matches.ok THEN matches
                 ELSE Ok([type |-> "search",
                          total_matches |-> Len(matches.val),
                          matches |-> matches.val])

search_pattern(node, pattern, context_lines) ==
    IF ~exists(node) THEN Err(PathNotFound(node.path))
    ELSE LET regex == regex_new(pattern)
         IN  IF ~regex.ok THEN regex
             ELSE LET matches ==
                          IF is_file(node)
                          THEN search_file([path |-> <<node.path>>,
                                            readable |-> node.readable,
                                            lines |-> node.lines],
                                           regex.val, context_lines)
                          ELSE search_directory(node, regex.val, context_lines)
                  IN  IF ~matches.ok THEN matches
                      ELSE Ok([type |-> "search",
                               total_matches |-> Len(matches.val),
                               matches |-> matches.val])

(* --------------------- specification: line mode ------------------------ *)

\* a file of n distinct lines
NumberedLines(n) == [i \in 1..n |-> ToString(i)]

LineArgs ==
    [start : OptionI32, end : OptionI32, total_lines : 0..MaxTotal]

InitLine ==
    /\ call = "none"
    /\ args \in LineArgs
    /\ ret = None

\* resolve_line_range(start, end, total_lines)
Resolve ==
    /\ call = "none"
    /\ call' = "resolve_line_range"
    /\ ret' = resolve_line_range(args.start, args.end, args.total_lines)
    /\ UNCHANGED args

\* read_lines on a readable file of total_lines lines
ReadLines ==
    /\ call = "none"
    /\ call' = "read_lines"
    /\ ret' = read_lines(File("/f", TRUE, NumberedLines(args.total_lines)),
                         args.start, args.end)
    /\ UNCHANGED args

NextLine == Resolve \/ ReadLines

SpecLine == InitLine /\ [][NextLine]_vars

(* --------------------------- directory.rs ------------------------------ *)

DEFAULT_IGNORE ==
    {<<".", "g", "i", "t">>,
     <<"n", "o", "d", "e", "_", "m", "o", "d", "u", "l", "e", "s">>,
     <<"_", "_", "p", "y", "c", "a", "c", "h", "e", "_", "_">>,
     <<".", "v", "e", "n", "v">>,
     <<"v", "e", "n", "v">>,
     <<"t", "a", "r", "g", "e", "t">>,
     <<"d", "i", "s", "t">>,
     <<"b", "u", "i", "l", "d">>}

\* str::starts_with(char)
starts_with(name, c) == Len(name) >= 1 /\ name[1] = c

\* str::contains(&str)
contains(name, pattern) ==
    \E i \in 1..(Len(name) - Len(pattern) + 1) :
        SubSeq(name, i, i + Len(pattern) - 1) = pattern

\* a filter that ignores only names equal to a pattern
should_include_exact(entry) ==
    IF entry.depth = 0 THEN TRUE
    ELSE IF starts_with(entry.name, ".") THEN FALSE
    ELSE ~\E pattern \in DEFAULT_IGNORE : entry.name = pattern

should_include(entry) ==
    IF entry.depth = 0 THEN TRUE
    ELSE IF starts_with(entry.name, ".") THEN FALSE
    ELSE ~\E pattern \in DEFAULT_IGNORE : contains(entry.name, pattern)

\* WalkDir::new(path).max_depth(max_depth).into_iter().filter_entry(should_include):
\* the indices of the items yielded, from the k-th on.  Nothing deeper than
\* max_depth is visited; an entry the filter rejects is not yielded and, when
\* a directory, not descended into (pruned: its depth, or -1); errors are
\* yielded unfiltered.
RECURSIVE walker(_, _, _, _, _)
walker(items, k, max_depth, pruned, acc) ==
    IF k > Len(items) THEN acc
    ELSE LET e == items[k]
         IN  IF e.depth > max_depth \/ (pruned >= 0 /\ e.depth > pruned)
             THEN walker(items, k + 1, max_depth, pruned, acc)
             ELSE IF e.kind = "err"
             THEN walker(items, k + 1, max_depth, -1, Append(acc, k))
             ELSE IF ~should_include(e)
             THEN walker(items, k + 1, max_depth, e.depth, acc)
             ELSE walker(items, k + 1, max_depth, -1, Append(acc, k))

\* FileEntry, without the size and modified time the metadata supplies
FileEntry(path, dir) == [path |-> path, is_dir |-> dir]

\* entry.path().strip_prefix(path): the names below the root
RelativePath(node, k) == Tail(EntryPath(node.path, node.entries, k - 1))

\* the loop of list_directory over the yielded items, from the j-th on; the
\* filesystem does not change during the call, so metadata() succeeds
RECURSIVE list_directory_loop(_, _, _, _)
list_directory_loop(node, yielded, j, entries) ==
    IF j > Len(yielded) THEN Ok(entries)
    ELSE LET k == yielded[j]
             entry == WalkItems(node)[k]
         IN  IF entry.kind = "err" THEN Err(IoError)
             \* entry.path() == path
             ELSE IF k = 1 THEN list_directory_loop(node, yielded, j + 1, entries)
             ELSE list_directory_loop(
                      node, yielded, j + 1,
                      Append(entries, FileEntry(RelativePath(node, k),
                                                entry.kind = "dir")))

list_directory(node, depth) ==
    IF ~exists(node) THEN Err(PathNotFound(node.path))
    ELSE IF ~is_dir(node) THEN Err(InvalidPath(node.path))
    ELSE LET max_depth == IF depth = 0 THEN 1 ELSE AsUsize(depth)
             yielded == walker(WalkItems(node), 1, max_depth, -1, <<>>)
             r == list_directory_loop(node, yielded, 1, <<>>)
         IN  IF ~r.ok THEN r
             ELSE Ok([type |-> "directory",
                      total_count |-> Len(r.val),
                      entries |-> r.val])

(* ------------------------- types.rs, lib.rs ---------------------------- *)

(* FsReadMode *)
LineMode(start_line, end_line) ==
    [mode |-> "Line", start_line |-> start_line, end_line |-> end_line]
DirectoryMode(depth) == [mode |-> "Directory", depth |-> depth]
SearchMode(pattern, context_lines) ==
    [mode |-> "Search", pattern |-> pattern, context_lines |-> context_lines]

\* fs: what the filesystem holds at each path; params: FsReadParams
fs_read(fs, params) ==
    LET node == fs[params.path]
        m == params.mode
    IN  CASE m.mode = "Line" -> read_lines(node, m.start_line, m.end_line)
          [] m.mode = "Directory" -> list_directory(node, m.depth)
          [] m.mode = "Search" -> search_pattern(node, m.pattern, m.context_lines)

\* default_context_lines
default_context_lines == 2

\* an optional field of a JSON object
Field(op, name) == IF name \in DOMAIN op THEN Some(op[name]) ELSE None

\* serde_json::from_str::<FsReadParams>: op is the JSON object (a record of
\* the fields present); `path` and the `mode` tag are required, the tag is
\* one of the three variant names, `pattern` is required for Search, `depth`
\* defaults to 0 and `context_lines` to default_context_lines
from_str(op) ==
    IF ~({"path", "mode"} \subseteq DOMAIN op) THEN Err([kind |-> "serde"])
    ELSE CASE op.mode = "Line" ->
                  Ok([path |-> op.path,
                      mode |-> LineMode(Field(op, "start_line"), Field(op, "end_line"))])
           [] op.mode = "Directory" ->
                  Ok([path |-> op.path,
                      mode |-> DirectoryMode(unwrap_or(Field(op, "depth"), 0))])
           [] op.mode = "Search" ->
                  IF "pattern" \notin DOMAIN op THEN Err([kind |-> "serde"])
                  ELSE Ok([path |-> op.path,
                           mode |-> SearchMode(
                                        op.pattern,
                                        unwrap_or(Field(op, "context_lines"),
                                                  default_context_lines))])
           [] OTHER -> Err([kind |-> "serde"])

\* serde_json::to_string(&result): the JSON text of a result
to_string(result) == [json |-> result]

PyValueError(e) == [kind |-> "PyValueError", msg |-> e]
PyRuntimeError(e) == [kind |-> "PyRuntimeError", msg |-> e]

\* the loop of fs_read_batch_py from the i-th operation on
RECURSIVE fs_read_batch_loop(_, _, _, _)
fs_read_batch_loop(fs, operations, i, results) ==
    IF i > Len(operations) THEN Ok(results)
    ELSE LET params == from_str(operations[i])
         IN  IF ~params.ok THEN Err(PyValueError(params.err))
             ELSE LET result == fs_read(fs, params.val)
                  IN  IF result.panic THEN Panic
                      ELSE IF ~result.ok THEN Err(PyRuntimeError(result.err))
                      ELSE fs_read_batch_loop(fs, operations, i + 1,
                                              Append(results, to_string(result.val)))

fs_read_batch_py(fs, operations) == fs_read_batch_loop(fs, operations, 1, <<>>)

(* ------------------- filesystem contents (inputs) ---------------------- *)

\* file and directory names, as sequences of characters
N_src == <<"s", "r", "c">>
N_env == <<".", "e", "n", "v">>
N_rebuild == <<"r", "e", "b", "u", "i", "l", "d">>
N_node_modules == <<"n", "o", "d", "e", "_", "m", "o", "d", "u", "l", "e", "s">>

SeqsUpTo(S, n) == UNION {[1..k -> S] : k \in 0..n}

\* entry e can follow the pre-order sequence t: it is a child of the root, a
\* sibling of an ancestor-or-self of the last entry, or a child of the last
\* entry when that is a directory; names are unique among siblings
Fits(t, e) ==
    /\ e.depth >= 1
    /\ t = <<>> => e.depth = 1
    /\ t # <<>> =>
           /\ e.depth <= t[Len(t)].depth + 1
           /\ e.depth = t[Len(t)].depth + 1 => t[Len(t)].kind = "dir"
    /\ e.kind # "err" =>
           LET t2 == Append(t, e)
               p == ParentIdx(t2, Len(t2), Len(t))
           IN  \A j \in 1..Len(t) :
                   (t[j].kind # "err" /\ t[j].depth = e.depth /\ ParentIdx(t, j, j - 1) = p)
                       => t[j].name # e.name

\* the pre-order sequences of at most n entries drawn from E
RECURSIVE FlatTrees(_, _)
FlatTrees(E, n) ==
    IF n = 0 THEN {<<>>}
    ELSE LET P == FlatTrees(E, n - 1)
         IN  P \cup {Append(x[1], x[2]) :
                        x \in {y \in {q \in P : Len(q) = n - 1} \X E : Fits(y[1], y[2])}}

(* -------------------- specification: search mode ----------------------- *)

ContextValues == {0, 1, 2, U32Max}

FileLines == SeqsUpTo({TodoLine, "line a", "line b"}, MaxLines)

SearchDirEntries ==
    {WalkError(1)}
    \cup {WalkDirectory(1, n) : n \in {N_src, N_env}}
    \cup {WalkFile(1, n, FALSE, <<>>) : n \in {N_src, N_env}}
    \cup {WalkFile(1, x[1], TRUE, x[2]) :
             x \in {N_src, N_env} \X SeqsUpTo({TodoLine, "line a"}, MaxDirLines)}
    \cup {WalkFile(2, n, FALSE, <<>>) : n \in {N_src, N_env}}
    \cup {WalkFile(2, n, TRUE, <<"line a", TodoLine>>) : n \in {N_src, N_env}}

SearchTargets ==
    {Missing("/p"), Special("/p"), File("/p", FALSE, <<>>)}
    \cup {File("/p", TRUE, l) : l \in FileLines}
    \cup {Dir("/p", N_src, t) : t \in FlatTrees(SearchDirEntries, MaxDirEntries)}

InitSearch ==
    /\ call = "none"
    /\ args \in [node : SearchTargets, pattern : Patterns, context_lines : ContextValues]
    /\ ret = None

\* search_pattern(path, pattern, context_lines)
SearchPattern ==
    /\ call = "none"
    /\ call' = "search_pattern"
    /\ ret' = search_pattern(args.node, args.pattern, args.context_lines)
    /\ UNCHANGED args

NextSearch == SearchPattern

SpecSearch == InitSearch /\ [][NextSearch]_vars

(* ------------------- specification: directory mode -------------------- *)

DepthValues == {0, 1, 2, U32Max}

Names == {N_src, N_env, N_rebuild, N_node_modules}

DirEntries ==
    {WalkError(d) : d \in 1..MaxEntries}
    \cup {WalkDirectory(x[1], x[2]) : x \in (1..MaxEntries) \X Names}
    \cup {WalkFile(x[1], x[2], TRUE, <<>>) : x \in (1..MaxEntries) \X Names}

DirTargets ==
    {Missing("/p"), Special("/p"), File("/p", TRUE, <<>>)}
    \cup {Dir("/p", N_env, t) : t \in FlatTrees(DirEntries, MaxEntries)}

InitDir ==
    /\ call = "none"
    /\ args \in [node : DirTargets, depth : DepthValues]
    /\ ret = None

\* list_directory(path, depth)
ListDirectory ==
    /\ call = "none"
    /\ call' = "list_directory"
    /\ ret' = list_directory(args.node, args.depth)
    /\ UNCHANGED args

NextDir == ListDirectory

SpecDir == InitDir /\ [][NextDir]_vars

(* ---------------------- specification: fs_read ------------------------- *)

FsReadNodes ==
    {Missing("/p"), Special("/p"), File("/p", FALSE, <<>>)}
    \cup {File("/p", TRUE, NumberedLines(n)) : n \in 0..MaxTotal}
    \cup {Dir("/p", N_src, t) : t \in FlatTrees(SearchDirEntries, 1)}

FsReadModes ==
    {LineMode(x[1], x[2]) : x \in OptionI32 \X OptionI32}
    \cup {DirectoryMode(d) : d \in DepthValues}
    \cup {SearchMode(x[1], x[2]) : x \in Patterns \X ContextValues}

InitFsRead ==
    /\ call = "none"
    /\ args \in [node : FsReadNodes, mode : FsReadModes]
    /\ ret = None

\* fs_read(params), with args.node at params.path
FsRead ==
    /\ call = "none"
    /\ call' = "fs_read"
    /\ ret' = fs_read([p \in {"/p"} |-> args.node], [path |-> "/p", mode |-> args.mode])
    /\ UNCHANGED args

NextFsRead == FsRead

SpecFsRead == InitFsRead /\ [][NextFsRead]_vars

(* ----------------------- specification: batch -------------------------- *)

\* the filesystem the batch runs against
BatchFs ==
    [p \in {"/missing", "/f", "/d"} |->
        CASE p = "/missing" -> Missing(p)
          [] p = "/f" -> File(p, TRUE, <<"line 1", TodoLine, "line 3", TodoLine, "line 5">>)
          [] p = "/d" -> Dir(p, N_src, <<WalkFile(1, N_src, TRUE, <<TodoLine>>)>>)]

\* encoded requests: three that succeed, two that fail, two that do not decode
BatchOps ==
    {[path |-> "/f", mode |-> "Line", start_line |-> 2, end_line |-> 4],
     [path |-> "/d", mode |-> "Directory"],
     [path |-> "/f", mode |-> "Search", pattern |-> "TODO"],
     [path |-> "/missing", mode |-> "Line"],
     [path |-> "/f", mode |-> "Line", start_line |-> 10, end_line |-> 2],
     [path |-> "/f", mode |-> "Search"],
     [path |-> "/f", mode |-> "Tree"]}

InitBatch ==
    /\ call = "none"
    /\ args \in [operations : SeqsUpTo(BatchOps, MaxBatch)]
    /\ ret = None

\* fs_read_batch_py(operations)
FsReadBatch ==
    /\ call = "none"
    /\ call' = "fs_read_batch_py"
    /\ ret' = fs_read_batch_py(BatchFs, args.operations)
    /\ UNCHANGED args

NextBatch == FsReadBatch

SpecBatch == InitBatch /\ [][NextBatch]_vars

(* ------------------------ claims: line mode ---------------------------- *)

\* C1: whenever resolve_line_range returns (begin, end_excl), it has
\* 0 <= begin <= end_excl <= total, and the slice lines[begin..end_excl]
\* read_lines takes never goes out of bounds (read_lines never panics).
C1_RangeInBounds ==
    /\ (call = "resolve_line_range" /\ ret.ok) =>
           /\ 0 <= ret.val[1]
           /\ ret.val[1] <= ret.val[2]
           /\ ret.val[2] <= args.total_lines
    /\ call = "read_lines" =>
           /\ ~ret.panic
           /\ ret.ok => /\ ret.val.lines_returned <= ret.val.total_lines
                        /\ ret.val.total_lines = args.total_lines

\* a read with a negative start and an end beyond the file returns lines
C1_Witness ==
    /\ call = "read_lines" /\ ret.ok
    /\ args.start.some /\ args.start.v < 0
    /\ args.end.some /\ args.end.v > args.total_lines
    /\ ret.val.lines_returned > 0

\* the resolver as section 4.1 of the specification words it
AbsVal(x) == IF x < 0 THEN 0 - x ELSE x
MaxOf(a, b) == IF a >= b THEN a ELSE b
RefBegin(start, total) ==
    CASE ~start.some -> 0
      [] start.some /\ start.v \in {0, 1} -> 0
      [] start.some /\ start.v > 1 -> Min(start.v - 1, total)
      [] start.some /\ start.v < 0 -> MaxOf(total - AbsVal(start.v), 0)
RefEnd(end, total) ==
    CASE ~end.some -> total
      [] end.some /\ end.v >= 0 -> Min(end.v, total)
      [] end.some /\ end.v < 0 /\ AbsVal(end.v) <= total -> total - AbsVal(end.v) + 1
      [] end.some /\ end.v < 0 /\ AbsVal(end.v) > total -> 0

C3_LastK_Original ==
    (/\ call = "resolve_line_range"
     /\ args.start.some /\ args.start.v <= 0
     /\ AbsVal(args.start.v) <= args.total_lines
     /\ ~args.end.some) =>
        ret.ok /\ ret.val = <<args.total_lines - AbsVal(args.start.v), args.total_lines>>

\* C3 amended: resolve(Some(-k), None, total) with 1 <= k <= total returns
\* (total - k, total); with k = 0 (start 0) it returns the whole file, (0, total).
C3_LastK ==
    (/\ call = "resolve_line_range"
     /\ args.start.some /\ args.start.v <= 0
     /\ AbsVal(args.start.v) <= args.total_lines
     /\ ~args.end.some) =>
        /\ ret.ok
        /\ args.start.v < 0 =>
               ret.val = <<args.total_lines - AbsVal(args.start.v), args.total_lines>>
        /\ args.start.v = 0 => ret.val = <<0, args.total_lines>>

\* the last-k idiom at k = total on a non-empty file
C3_Witness ==
    /\ call = "resolve_line_range" /\ ret.ok
    /\ args.total_lines > 1
    /\ args.start.some /\ args.start.v = 0 - args.total_lines
    /\ ~args.end.some
    /\ ret.val = <<0, args.total_lines>>

\* C4: a failure of resolve_line_range (also through read_lines on a readable
\* file) is InvalidLineRange, happens only when the caller gave both start and
\* end, and carries exactly those two values.
C4_ErrorCarriesOriginal ==
    (call \in {"resolve_line_range", "read_lines"} /\ ~ret.ok) =>
        /\ ~ret.panic
        /\ ret.err.kind = "InvalidLineRange"
        /\ args.start.some /\ args.end.some
        /\ ret.err.start = args.start.v
        /\ ret.err.end = args.end.v

\* start = 10, end = 2 on a 5-line file fails carrying (10, 2)
C4_Witness ==
    /\ call = "resolve_line_range" /\ ~ret.ok
    /\ args.total_lines = 5
    /\ args.start = Some(10) /\ args.end = Some(2)
    /\ ret.err = InvalidLineRange(10, 2)

\* C10: as test_resolve_line_range_positive asserts, for 0 <= s <= e <= total
\* resolve_line_range(Some(s), Some(e), total) returns (s, e).
C10_PositiveIdentity ==
    (/\ call = "resolve_line_range"
     /\ args.start.some /\ args.end.some
     /\ 0 <= args.start.v /\ args.start.v <= args.end.v
     /\ args.end.v <= args.total_lines) =>
        ret.ok /\ ret.val = <<args.start.v, args.end.v>>

(* ----------------------- claims: search mode --------------------------- *)

\* the lines of the file a match names
MatchedLines(node, m) ==
    IF is_file(node) THEN node.lines
    ELSE LET j == CHOOSE j \in 1..Len(node.entries) :
                      /\ node.entries[j].kind = "file"
                      /\ EntryPath(node.path, node.entries, j) = m.file_path
         IN  node.entries[j].lines

\* C6: the search never panics, and every match at 0-based index i of a file
\* of n lines, with context_lines c, has context_before equal to the
\* min(c, i) lines just before line i and context_after equal to the
\* min(c, n-1-i) lines just after it, both in file order.
C6_ContextWindows ==
    call = "search_pattern" =>
        /\ ~ret.panic
        /\ ret.ok =>
               \A k \in 1..Len(ret.val.matches) :
                   LET m == ret.val.matches[k]
                       L == MatchedLines(args.node, m)
                       n == Len(L)
                       i == m.line_number - 1
                       c == args.context_lines
                       nb == IF c <= i THEN c ELSE i
                       na == IF c <= n - 1 - i THEN c ELSE n - 1 - i
                   IN  /\ 0 <= i /\ i < n
                       /\ m.line_content = L[i + 1]
                       /\ m.context_before = [x \in 1..nb |-> L[i - nb + x]]
                       /\ m.context_after = [x \in 1..na |-> L[i + 1 + x]]
                       /\ Len(m.context_before) <= c /\ Len(m.context_after) <= c
                       /\ i = 0 => m.context_before = <<>>
                       /\ i = n - 1 => m.context_after = <<>>

\* one file with a match on its first line (nothing before, two lines after)
\* and a match on its last line (one line before it short of the window
\* only because of the earlier lines, nothing after)
C6_Witness ==
    /\ call = "search_pattern" /\ ret.ok
    /\ is_file(args.node) /\ Len(args.node.lines) = 4
    /\ args.context_lines = 2
    /\ ret.val.total_matches = 2
    /\ ret.val.matches[1].line_number = 1
    /\ ret.val.matches[1].context_before = <<>>
    /\ ret.val.matches[1].context_after = <<"line a", "line b">>
    /\ ret.val.matches[2].line_number = 4
    /\ ret.val.matches[2].context_before = <<"line a", "line b">>
    /\ ret.val.matches[2].context_after = <<>>

\* C7: a search of an existing directory with a pattern that compiles
\* succeeds; its matches are exactly the matching lines of the readable
\* files, in discovery order and then by ascending line number, and
\* total_matches counts them.
C7_DirectorySearch ==
    (call = "search_pattern" /\ is_dir(args.node) /\ args.pattern # "(") =>
        /\ ret.ok
        /\ LET R == ret.val.matches
               E == args.node.entries
               Readable == {j \in 1..Len(E) : E[j].kind = "file" /\ E[j].readable}
               Expected == UNION {{<<j, i>> : i \in {i \in 1..Len(E[j].lines) :
                                                       E[j].lines[i] = TodoLine}} :
                                  j \in Readable}
               Idx(m) == CHOOSE j \in 1..Len(E) :
                             /\ E[j].kind = "file"
                             /\ EntryPath(args.node.path, E, j) = m.file_path
           IN  /\ ret.val.total_matches = Len(R)
               /\ Len(R) = Cardinality(Expected)
               /\ \A k \in 1..Len(R) :
                      /\ \E j \in 1..Len(E) :
                             /\ E[j].kind = "file"
                             /\ EntryPath(args.node.path, E, j) = R[k].file_path
                      /\ <<Idx(R[k]), R[k].line_number>> \in Expected
               /\ \A k \in 1..(Len(R) - 1) :
                      \/ Idx(R[k]) < Idx(R[k + 1])
                      \/ /\ Idx(R[k]) = Idx(R[k + 1])
                         /\ R[k].line_number < R[k + 1].line_number

\* an unreadable file between (in discovery order) is skipped and the matches
\* of the readable file after it are returned
C7_Witness ==
    /\ call = "search_pattern" /\ ret.ok /\ is_dir(args.node)
    /\ Len(args.node.entries) = 3
    /\ args.node.entries[1].kind = "file" /\ ~args.node.entries[1].readable
    /\ args.node.entries[2].kind = "err"
    /\ args.node.entries[3].kind = "file" /\ args.node.entries[3].readable
    /\ ret.val.total_matches = 2
    /\ ret.val.matches[1].line_number = 1
    /\ ret.val.matches[2].line_number = 2

(* ---------------------- claims: directory mode ------------------------- *)

\* the names the listing is said never to show
ListedIgnore ==
    {<<"n", "o", "d", "e", "_", "m", "o", "d", "u", "l", "e", "s">>,
     <<".", "g", "i", "t">>,
     <<"t", "a", "r", "g", "e", "t">>,
     <<"d", "i", "s", "t">>,
     <<"b", "u", "i", "l", "d">>}

\* C9: a successful listing never contains the root, never an entry deeper
\* than the effective depth (0 counting as 1), never an entry whose name
\* starts with '.' or contains node_modules, .git, target, dist or build,
\* and total_count is the number of entries.
C9_ListingFiltered ==
    (call = "list_directory" /\ ret.ok) =>
        LET effective == IF args.depth = 0 THEN 1 ELSE args.depth
            entries == ret.val.entries
        IN  /\ ret.val.total_count = Len(entries)
            /\ \A k \in 1..Len(entries) :
                   LET path == entries[k].path
                   IN  /\ path # <<>>
                       /\ Len(path) <= effective
                       /\ path[Len(path)][1] # "."
                       /\ \A pattern \in ListedIgnore :
                              ~contains(path[Len(path)], pattern)

\* depth 0 on a directory holding `rebuild`, `src` and `src/src`: only `src`
C9_Witness ==
    /\ call = "list_directory" /\ ret.ok
    /\ args.depth = 0
    /\ Len(args.node.entries) = 3
    /\ args.node.entries[1] = WalkFile(1, N_rebuild, TRUE, <<>>)
    /\ args.node.entries[2] = WalkDirectory(1, N_src)
    /\ args.node.entries[3] = WalkFile(2, N_src, TRUE, <<>>)
    /\ ret.val.total_count = 1
    /\ ret.val.entries[1].path = <<N_src>>

(* ------------------------- claims: fs_read ----------------------------- *)

\* C8: a missing path fails with PathNotFound in every mode, whatever the
\* other parameters; an existing path that is not a regular file fails Line
\* mode with InvalidPath; an existing path that is not a directory fails
\* Directory mode with InvalidPath.
C8_PreconditionsFirst ==
    call = "fs_read" =>
        /\ ~exists(args.node) =>
               ~ret.ok /\ ret.err = PathNotFound("/p")
        /\ (exists(args.node) /\ ~is_file(args.node) /\ args.mode.mode = "Line") =>
               ~ret.ok /\ ret.err = InvalidPath("/p")
        /\ (exists(args.node) /\ ~is_dir(args.node) /\ args.mode.mode = "Directory") =>
               ~ret.ok /\ ret.err = InvalidPath("/p")

\* a search of a missing path with a pattern that does not compile
C8_Witness ==
    /\ call = "fs_read"
    /\ ~exists(args.node)
    /\ args.mode.mode = "Search" /\ args.mode.pattern = "("
    /\ ~ret.ok /\ ret.err.kind = "PathNotFound"

(* -------------------------- claims: batch ------------------------------ *)

\* the encoded outcome of one request: its result, or its error
Outcome(op) ==
    LET r == fs_read(BatchFs, from_str(op).val)
    IN  IF r.ok THEN to_string(r.val) ELSE [error |-> r.err]

\* C5: a batch of well-encoded requests returns one output per request, in
\* order, the i-th being the result or the error of the i-th request; a
\* request that fails neither stops the batch nor discards earlier results.
C5_BatchIndependent ==
    (/\ call = "fs_read_batch_py"
     /\ \A i \in 1..Len(args.operations) : from_str(args.operations[i]).ok) =>
        /\ ret.ok
        /\ Len(ret.val) = Len(args.operations)
        /\ \A i \in 1..Len(args.operations) : ret.val[i] = Outcome(args.operations[i])

====
